---- MODULE Spec2Model ----
(***************************************************************************)
(* Coffee-shop API (projects/03_coffee_shop_full_stack, backend/src/api.py)*)
(* The Authorization header, the JWT verification against the identity     *)
(* provider's key set, the permission check, and the five /drinks routes   *)
(* over the drinks table.                                                  *)
(*                                                                         *)
(* Strings the code inspects character by character (the Authorization     *)
(* header) are sequences of one-character strings.  A compact JWT is a     *)
(* run of seven characters, one per field of the token; any other run     *)
(* of characters is a string the JWT library cannot parse.                 *)
(***************************************************************************)
EXTENDS Integers, Sequences, FiniteSets, TLC

\* The coffee-shop API: the drinks table, the identity provider's key set,
\* the clock, the latest request with its answer, and a kept authorization.
VARIABLES drinks, jwks, now, last, memo

\* The trivia API (projects/02_trivia_api, backend/flaskr/__init__.py): the
\* question table with the sequence its ids come from, the latest request
\* with its answer, and the quiz a client is playing.
VARIABLES questions, question_id_seq, reply, quiz

\* Fyyur (projects/01_fyyur, starter_code/app.py): the venue and show
\* tables, the day, and the areas the latest /venues page was rendered with.
VARIABLES venues, shows, today, areas

coffee_vars == <<drinks, jwks, now, last, memo>>

trivia_vars == <<questions, question_id_seq, reply, quiz>>

fyyur_vars == <<venues, shows, today, areas>>

vars == <<coffee_vars, trivia_vars, fyyur_vars>>

(* ------------------------------ bounds --------------------------------- *)

\* The clock runs from 0 to MaxTime.
MaxTime == 1

\* The drinks table holds at most MaxDrinks rows.
MaxDrinks == 4

(* ------------------------- configuration ------------------------------- *)

AUTH0_DOMAIN == "full.eu.auth0.com"

ALGORITHMS == {"RS256"}

API_AUDIENCE == "drinks"

\* 'https://' + AUTH0_DOMAIN + '/'
ISSUER == "https://full.eu.auth0.com/"

(* ------------------------------ strings -------------------------------- *)

SP == " "

TAB == "\t"

Str_Bearer == <<"B", "e", "a", "r", "e", "r">>

Str_bearer == <<"b", "e", "a", "r", "e", "r">>

Str_BEARER == <<"B", "E", "A", "R", "E", "R">>

Str_Basic == <<"B", "a", "s", "i", "c">>

\* str.lower() on one character of the alphabet used by the model.
LowerChar(c) ==
    CASE c = "B" -> "b"
      [] c = "E" -> "e"
      [] c = "A" -> "a"
      [] c = "R" -> "r"
      [] c = "H" -> "h"
      [] OTHER -> c

\* str.lower()
Lower(s) == [i \in 1..Len(s) |-> LowerChar(s[i])]

\* str.split(sep) for a one-character separator: the pieces between
\* consecutive separators, empty pieces included; ''.split(' ') is [''].
RECURSIVE SplitFrom(_, _, _)
SplitFrom(s, sep, cur) ==
    IF s = <<>> THEN <<cur>>
    ELSE IF Head(s) = sep THEN <<cur>> \o SplitFrom(Tail(s), sep, <<>>)
    ELSE SplitFrom(Tail(s), sep, Append(cur, Head(s)))

SplitOnSpace(s) == SplitFrom(s, SP, <<>>)

\* str.split() without a separator: the maximal runs of non-whitespace
\* characters of s, in order.
Whitespace == {SP, TAB}

RECURSIVE WordsFrom(_, _)
WordsFrom(s, cur) ==
    LET done == IF cur = <<>> THEN <<>> ELSE <<cur>> IN
    IF s = <<>> THEN done
    ELSE IF Head(s) \in Whitespace THEN done \o WordsFrom(Tail(s), <<>>)
    ELSE WordsFrom(Tail(s), Append(cur, Head(s)))

Words(s) == WordsFrom(s, <<>>)

(* ------------------------------ tokens --------------------------------- *)

\* A compact JWT: <<kid, signing key, alg, exp, aud, iss, permissions>>.
KidChars == {"0", "1", "2"}

SigChars == {"1", "2"}

AlgChars == {"R", "H"}

ExpChars == {"0", "9"}

AudChars == {"d", "x"}

IssChars == {"f", "y"}

PermChars == {"n", "e", "g", "p", "u", "d", "a"}

Permissions == {"get:drinks-detail", "post:drinks", "patch:drinks", "delete:drinks"}

\* An expiry no clock value of the model reaches.
FarExp == MaxTime + 1

\* Whether the JWT library can split and decode the string at all.
Parseable(token) ==
    /\ Len(token) = 7
    /\ token[1] \in KidChars
    /\ token[2] \in SigChars
    /\ token[3] \in AlgChars
    /\ token[4] \in ExpChars
    /\ token[5] \in AudChars
    /\ token[6] \in IssChars
    /\ token[7] \in PermChars

\* The JOSE header of a parseable token: alg, and kid when the token has one.
TokenHeader(token) ==
    LET alg == IF token[3] = "R" THEN "RS256" ELSE "HS256"
    IN  IF token[1] = "0" THEN [alg |-> alg]
        ELSE [alg |-> alg, kid |-> token[1]]

\* The name of the key pair whose private key signed the token.
TokenSigner(token) == token[2]

TokenPermissions(token) ==
    CASE token[7] = "e" -> {}
      [] token[7] = "g" -> {"get:drinks-detail"}
      [] token[7] = "p" -> {"post:drinks"}
      [] token[7] = "u" -> {"patch:drinks"}
      [] token[7] = "d" -> {"delete:drinks"}
      [] OTHER -> Permissions

\* The claims of a parseable token; the permissions claim is optional.
TokenClaims(token) ==
    LET base == [exp |-> IF token[4] = "0" THEN 0 ELSE FarExp,
                 aud |-> IF token[5] = "d" THEN "drinks" ELSE "other",
                 iss |-> IF token[6] = "f" THEN "https://full.eu.auth0.com/"
                                           ELSE "https://evil.example/"]
    IN  IF token[7] = "n" THEN base
        ELSE [exp |-> base.exp, aud |-> base.aud, iss |-> base.iss,
              permissions |-> TokenPermissions(token)]

(* ------------------- outcomes of a Python call ------------------------- *)

Return(v) == [kind |-> "return", value |-> v]

\* flask.abort(status) at the named place of the code.
Abort(status, site) == [kind |-> "abort", status |-> status, site |-> site]

\* raise AuthError({'code': code, 'description': description}, status)
RaiseAuthError(code, description, status, site) ==
    [kind |-> "AuthError", error |-> [code |-> code, description |-> description],
     status_code |-> status, site |-> site]

\* Any other exception, by its class.
Raise(type) == [kind |-> "exception", type |-> type]

NoValue == [kind |-> "none"]

(* --------------------------- the key set ------------------------------- *)

\* What the identity provider's jwks.json endpoint answers: up says whether
\* urlopen and json.loads succeed, doc is the parsed document.
Key(kid, n) == [kty |-> "RSA", kid |-> kid, use |-> "sig", n |-> n, e |-> "AQAB"]

JwksDown == [up |-> FALSE, doc |-> [keys |-> <<>>]]

JwksDoc(keys) == [up |-> TRUE, doc |-> [keys |-> keys]]

JwksNoKeys == [up |-> TRUE, doc |-> [message |-> "Not Found"]]

JwksOptions ==
    { JwksDown,
      JwksNoKeys,
      JwksDoc(<<>>),
      JwksDoc(<<Key("1", "1"), Key("2", "2")>>),
      JwksDoc(<<Key("1", "2")>>) }

(* ------------------------------ auth ----------------------------------- *)

\* jose.jwt.get_unverified_header(token)
get_unverified_header(token) ==
    IF Parseable(token) THEN Return(TokenHeader(token)) ELSE Raise("JWTError")

\* Mutant: the signature is not checked.
MutSignatureNotChecked(token, rsa_key) == TRUE

\* Whether the signature of the token verifies under the public key.
SignatureVerifies(token, rsa_key) == TokenSigner(token) = rsa_key.n

\* Mutant: a token counts as expired already at its exp.
MutDecodeExpiresAtExp(token, rsa_key, algorithms, audience, issuer, clock) ==
    LET claims == TokenClaims(token)
    IN  IF TokenHeader(token).alg \notin algorithms THEN Raise("JWTError")
        ELSE IF TokenSigner(token) # rsa_key.n THEN Raise("JWTError")
        ELSE IF claims.exp <= clock THEN Raise("ExpiredSignatureError")
        ELSE IF claims.aud # audience THEN Raise("JWTClaimsError")
        ELSE IF claims.iss # issuer THEN Raise("JWTClaimsError")
        ELSE Return(claims)

\* jose.jwt.decode(token, key, algorithms, audience, issuer) at time clock:
\* the algorithm and the signature first, then exp, aud, iss in that order.
jwt_decode(token, rsa_key, algorithms, audience, issuer, clock) ==
    LET claims == TokenClaims(token)
    IN  IF TokenHeader(token).alg \notin algorithms THEN Raise("JWTError")
        ELSE IF ~SignatureVerifies(token, rsa_key) THEN Raise("JWTError")
        ELSE IF claims.exp < clock THEN Raise("ExpiredSignatureError")
        ELSE IF claims.aud # audience THEN Raise("JWTClaimsError")
        ELSE IF claims.iss # issuer THEN Raise("JWTClaimsError")
        ELSE Return(claims)

\* Mutant: the loop takes the last key of the set whatever its kid.
MutChooseKeyIgnoresKid(keys, kid, rsa_key) ==
    IF keys = <<>> THEN rsa_key ELSE keys[Len(keys)]

\* The loop over jwks['keys']: the last entry whose kid matches, else {}.
RECURSIVE ChooseKey(_, _, _)
ChooseKey(keys, kid, rsa_key) ==
    IF keys = <<>> THEN rsa_key
    ELSE ChooseKey(Tail(keys), kid,
                   IF Head(keys).kid = kid
                   THEN [kty |-> Head(keys).kty, kid |-> Head(keys).kid,
                         use |-> Head(keys).use, n |-> Head(keys).n,
                         e |-> Head(keys).e]
                   ELSE rsa_key)

\* Mutant: a claims error falls through to the last except clause.
MutDecodeOutcomeClaimsAsHeader(r) ==
    IF r.kind = "return" THEN r
    ELSE IF r.type = "ExpiredSignatureError"
         THEN RaiseAuthError("token_expired", "Token expired.", 401, "TokenExpired")
    ELSE RaiseAuthError("invalid_header", "Unable to parse authentication token.",
                        400, "InvalidHeader")

\* The except clauses around jwt.decode.
DecodeOutcome(r) ==
    IF r.kind = "return" THEN r
    ELSE IF r.type = "ExpiredSignatureError"
         THEN RaiseAuthError("token_expired", "Token expired.", 401, "TokenExpired")
    ELSE IF r.type = "JWTClaimsError"
         THEN RaiseAuthError("invalid_claims",
                  "Incorrect claims. Please, check the audience and issuer.",
                  401, "InvalidClaims")
    ELSE RaiseAuthError("invalid_header", "Unable to parse authentication token.",
                        400, "InvalidHeader")

\* The outcome of verify_decode_jwt with the calls it made:
\* fetches (urlopen), parses (get_unverified_header), decodes (jwt.decode).
Verified(out, fetches, parses, decodes) ==
    [out |-> out, fetches |-> fetches, parses |-> parses, decodes |-> decodes]

\* Mutant: the missing kid is raised with status 400.
MutMissingKidAs400 ==
    RaiseAuthError("invalid_header", "Authorization malformed.", 400, "MalformedHeader")

\* What is raised for a token header without kid.
MissingKid ==
    RaiseAuthError("invalid_header", "Authorization malformed.", 401, "MalformedHeader")

\* Mutant: when the key set cannot be fetched the token is decoded without
\* verification.
MutVerifyFailsOpen(token, net, clock) ==
    IF ~net.up
    THEN IF Parseable(token) THEN Verified(Return(TokenClaims(token)), 1, 1, 0)
         ELSE Verified(Raise("JWTError"), 1, 1, 0)
    ELSE LET unverified_header == get_unverified_header(token) IN
    IF unverified_header.kind # "return" THEN Verified(unverified_header, 1, 1, 0)
    ELSE IF "kid" \notin DOMAIN unverified_header.value
    THEN Verified(MissingKid, 1, 1, 0)
    ELSE IF "keys" \notin DOMAIN net.doc THEN Verified(Raise("KeyError"), 1, 1, 0)
    ELSE LET rsa_key == ChooseKey(net.doc.keys, unverified_header.value.kid, NoValue) IN
    IF rsa_key # NoValue
    THEN Verified(DecodeOutcome(jwt_decode(token, rsa_key, ALGORITHMS,
                                           API_AUDIENCE, ISSUER, clock)), 1, 1, 1)
    ELSE Verified(RaiseAuthError("invalid_header",
                      "Unable to find the appropriate key.", 400, "KeyNotFound"),
                  1, 1, 0)

\* Mutant: a failed fetch of the key set is tried once more.
MutVerifyRetriesFetch(token, net, clock) ==
    IF ~net.up THEN Verified(Raise("URLError"), 2, 0, 0)
    ELSE LET unverified_header == get_unverified_header(token) IN
    IF unverified_header.kind # "return" THEN Verified(unverified_header, 1, 1, 0)
    ELSE IF "kid" \notin DOMAIN unverified_header.value
    THEN Verified(MissingKid, 1, 1, 0)
    ELSE IF "keys" \notin DOMAIN net.doc THEN Verified(Raise("KeyError"), 1, 1, 0)
    ELSE LET rsa_key == ChooseKey(net.doc.keys, unverified_header.value.kid, NoValue) IN
    IF rsa_key # NoValue
    THEN Verified(DecodeOutcome(jwt_decode(token, rsa_key, ALGORITHMS,
                                           API_AUDIENCE, ISSUER, clock)), 1, 1, 1)
    ELSE Verified(RaiseAuthError("invalid_header",
                      "Unable to find the appropriate key.", 400, "KeyNotFound"),
                  1, 1, 0)

verify_decode_jwt(token, net, clock) ==
    IF ~net.up THEN Verified(Raise("URLError"), 1, 0, 0)
    ELSE LET unverified_header == get_unverified_header(token) IN
    IF unverified_header.kind # "return" THEN Verified(unverified_header, 1, 1, 0)
    ELSE IF "kid" \notin DOMAIN unverified_header.value
    THEN Verified(MissingKid, 1, 1, 0)
    ELSE IF "keys" \notin DOMAIN net.doc THEN Verified(Raise("KeyError"), 1, 1, 0)
    ELSE LET rsa_key == ChooseKey(net.doc.keys, unverified_header.value.kid, NoValue) IN
    IF rsa_key # NoValue
    THEN Verified(DecodeOutcome(jwt_decode(token, rsa_key, ALGORITHMS,
                                           API_AUDIENCE, ISSUER, clock)), 1, 1, 1)
    ELSE Verified(RaiseAuthError("invalid_header",
                      "Unable to find the appropriate key.", 400, "KeyNotFound"),
                  1, 1, 0)

\* request.headers: a mapping that holds the Authorization header or not.
NoHeaders == [Host |-> "localhost"]

WithAuthorization(value) == [Host |-> "localhost", Authorization |-> value]

\* Mutant: auth_header.split(), on any run of whitespace.
MutHeaderPartsWhitespace(auth_header) == Words(auth_header)

\* auth_header.split(' ')
HeaderParts(auth_header) == SplitOnSpace(auth_header)

\* Mutant: the scheme is compared as written.
MutSchemeCaseSensitive(part) == part

\* header_parts[0].lower()
SchemeOf(part) == Lower(part)

\* Mutant: a missing header is read as an empty one that holds a token.
MutGetTokenMissingAsEmpty(headers) ==
    IF "Authorization" \notin DOMAIN headers THEN Return(<<>>)
    ELSE LET header_parts == HeaderParts(headers.Authorization) IN
         IF Len(header_parts) # 2 THEN Abort(401, "MalformedHeader")
         ELSE IF SchemeOf(header_parts[1]) # Str_bearer
              THEN Abort(401, "MalformedHeader")
         ELSE Return(header_parts[2])

get_token_auth_header(headers) ==
    IF "Authorization" \notin DOMAIN headers THEN Abort(401, "MissingHeader")
    ELSE LET header_parts == HeaderParts(headers.Authorization) IN
         IF Len(header_parts) # 2 THEN Abort(401, "MalformedHeader")
         ELSE IF SchemeOf(header_parts[1]) # Str_bearer
              THEN Abort(401, "MalformedHeader")
         ELSE Return(header_parts[2])

\* Mutant: only the presence of the permissions claim is checked.
MutCheckPermissionsClaimOnly(permission, payload) ==
    IF "permissions" \notin DOMAIN payload THEN Abort(400, "MissingPermissionsClaim")
    ELSE Return(TRUE)

\* Mutant: a missing permissions claim is read as an empty list.
MutCheckPermissionsMissingAsEmpty(permission, payload) ==
    IF "permissions" \notin DOMAIN payload THEN Abort(403, "Forbidden")
    ELSE IF permission \notin payload.permissions THEN Abort(403, "Forbidden")
    ELSE Return(TRUE)

check_permissions(permission, payload) ==
    IF "permissions" \notin DOMAIN payload THEN Abort(400, "MissingPermissionsClaim")
    ELSE IF permission \notin payload.permissions THEN Abort(403, "Forbidden")
    ELSE Return(TRUE)

\* What the wrapper does with the outcome of verify_decode_jwt: a bare
\* except turns every exception into abort(401).
VerifyOutcome(r) == IF r.kind = "return" THEN r ELSE Abort(401, "VerifyFailed")

\* The wrapper of requires_auth(permission) up to the call of f: out is
\* Return(payload) when f is to be called with payload, else the abort;
\* header is the outcome of get_token_auth_header, raised is what
\* verify_decode_jwt raised, checks counts the calls of check_permissions.
Authorized(out, header, v, raised, checks) ==
    [out |-> out, header |-> header, fetches |-> v.fetches, parses |-> v.parses,
     decodes |-> v.decodes, raised |-> raised, checks |-> checks]

NoCalls == [fetches |-> 0, parses |-> 0, decodes |-> 0]

requires_auth(permission, headers, net, clock) ==
    LET jwt == get_token_auth_header(headers) IN
    IF jwt.kind # "return" THEN Authorized(jwt, jwt, NoCalls, NoValue, 0)
    ELSE LET v == verify_decode_jwt(jwt.value, net, clock)
             payload == VerifyOutcome(v.out) IN
    IF payload.kind # "return" THEN Authorized(payload, jwt, v, v.out, 0)
    ELSE LET allowed == check_permissions(permission, payload.value) IN
    IF allowed.kind # "return" THEN Authorized(allowed, jwt, v, NoValue, 1)
    ELSE Authorized(payload, jwt, v, NoValue, 1)

(* --------------------------- the drinks table -------------------------- *)

\* Python None where a string is expected.
None == "<None>"

\* A list, or Python None where a list is expected.
Some(v) == [some |-> TRUE, v |-> v]

NoList == [some |-> FALSE, v |-> <<>>]

\* str(recipe): the Python repr of a list, in single quotes; str(None) is
\* the text None, which holds no quote at all.
PyStr(recipe) ==
    IF ~recipe.some THEN [repr |-> "None", items |-> <<>>, quote |-> "none"]
    ELSE [repr |-> "list", items |-> recipe.v,
          quote |-> IF recipe.v = <<>> THEN "none" ELSE "single"]

\* text.replace("'", '"')
ReplaceQuotes(text) ==
    IF text.quote = "single" THEN [text EXCEPT !.quote = "double"] ELSE text

\* json.loads(text): JSON strings are in double quotes, None is no JSON.
json_loads(text) ==
    IF text.repr = "list" /\ text.quote # "single" THEN Return(text.items)
    ELSE Raise("JSONDecodeError")

Ingredient(color, name, parts) == [color |-> color, name |-> name, parts |-> parts]

Row(title, recipe) == [title |-> title, recipe |-> recipe]

\* The three drinks inserted when the module is loaded.
SeedDrinks ==
    <<Row("Chai Latte", PyStr(Some(<<Ingredient("#f1d6ab", "milk", 2),
                                Ingredient("#a5642a", "chai", 1)>>))),
      Row("Cortado", PyStr(Some(<<Ingredient("#f1d6ab", "milk", 1),
                             Ingredient("#824f22", "coffee", 2)>>))),
      Row("Mint Tea", PyStr(Some(<<Ingredient("#cae2ca", "mint", 1)>>)))>>

Max(S) == CHOOSE m \in S : \A x \in S : x <= m

Min(S) == CHOOSE m \in S : \A x \in S : m <= x

\* The id an INTEGER PRIMARY KEY column gives a new row.
NextId(table) == IF DOMAIN table = {} THEN 1 ELSE Max(DOMAIN table) + 1

\* Drink.query.all(): the ids of the rows, in order.
RECURSIVE Ascending(_)
Ascending(S) == IF S = {} THEN <<>> ELSE <<Min(S)>> \o Ascending(S \ {Min(S)})

\* The unique constraint on title (NULLs do not collide).
TitleTaken(table, title, except) ==
    /\ title # None
    /\ \E i \in DOMAIN table \ except : table[i].title = title

\* Drink.insert(): add and commit.
Insert(table, row) ==
    IF TitleTaken(table, row.title, {}) THEN Raise("IntegrityError")
    ELSE Return([i \in DOMAIN table \cup {NextId(table)} |->
                    IF i \in DOMAIN table THEN table[i] ELSE row])

\* Drink.update(): commit the changed row.
Update(table, id, row) ==
    IF TitleTaken(table, row.title, {id}) THEN Raise("IntegrityError")
    ELSE Return([table EXCEPT ![id] = row])

\* Mutant: the row is marked deleted and the session is never committed.
MutDeleteKeepsRow(table, id) == Return(table)

\* Drink.delete(): delete and commit.
Delete(table, id) == Return([i \in DOMAIN table \ {id} |-> table[i]])

\* Drink.short() after the quotes of the recipe were replaced.
short(id, row) ==
    LET recipe == json_loads(ReplaceQuotes(row.recipe)) IN
    IF recipe.kind # "return" THEN recipe
    ELSE Return([id |-> id, title |-> row.title,
                 recipe |-> [k \in 1..Len(recipe.value) |->
                                [color |-> recipe.value[k].color,
                                 parts |-> recipe.value[k].parts]]])

\* Drink.long() after the quotes of the recipe were replaced.
long(id, row) ==
    LET recipe == json_loads(ReplaceQuotes(row.recipe)) IN
    IF recipe.kind # "return" THEN recipe
    ELSE Return([id |-> id, title |-> row.title, recipe |-> recipe.value])

(* ------------------------------ responses ------------------------------ *)

Response(status, body) == [status |-> status, body |-> body]

\* The registered error handlers; a status without one gets Flask's page.
ErrorResponse(status) ==
    CASE status = 401 -> Response(401, [success |-> FALSE, error |-> 401,
                                        message |-> "unauthorized"])
      [] status = 403 -> Response(403, [success |-> FALSE, error |-> 403,
                                        message |-> "forbidden"])
      [] status = 404 -> Response(404, [success |-> FALSE, error |-> 404,
                                        message |-> "resource not found"])
      [] status = 422 -> Response(422, [success |-> FALSE, error |-> 422,
                                        message |-> "unprocessable"])
      [] OTHER -> Response(status, [html |-> "default error page"])

\* The handler registered for AuthError: jsonify(ex.error) with the status
\* of the exception. It answers only an AuthError that reaches Flask.
handle_auth_error(ex) == Response(ex.status_code, ex.error)

\* What a view function leaves behind: the response and the table.
Handled(response, table) == [response |-> response, table |-> table]

(* -------------------------------- views -------------------------------- *)

\* The listing of every row in long or short form, or the first failure.
Listing(table, detail) ==
    LET ids == Ascending(DOMAIN table)
        items == [k \in 1..Len(ids) |->
                    IF detail THEN long(ids[k], table[ids[k]])
                    ELSE short(ids[k], table[ids[k]])]
    IN  IF \E k \in 1..Len(ids) : items[k].kind # "return"
        THEN Raise("JSONDecodeError")
        ELSE Return([k \in 1..Len(ids) |-> items[k].value])

get_drinks(table) ==
    LET drinks_short == Listing(table, FALSE) IN
    IF drinks_short.kind # "return" THEN Handled(ErrorResponse(404), table)
    ELSE Handled(Response(200, [success |-> TRUE, drinks |-> drinks_short.value]),
                 table)

get_drinks_detail(payload, table) ==
    IF DOMAIN payload = {} THEN Handled(ErrorResponse(401), table)
    ELSE LET drinks_detail == Listing(table, TRUE) IN
    IF drinks_detail.kind # "return" THEN Handled(ErrorResponse(404), table)
    ELSE Handled(Response(200, [success |-> TRUE, drinks |-> drinks_detail.value]),
                 table)

\* body.get(key, None)
BodyTitle(body) == IF "title" \in DOMAIN body THEN body.title ELSE None

BodyRecipe(body) == IF "recipe" \in DOMAIN body THEN Some(body.recipe) ELSE NoList

create_drink(payload, body, table) ==
    IF DOMAIN payload = {} THEN Handled(ErrorResponse(401), table)
    ELSE LET row == Row(BodyTitle(body), PyStr(BodyRecipe(body)))
             inserted == Insert(table, row) IN
    IF inserted.kind # "return" THEN Handled(ErrorResponse(422), table)
    ELSE LET drink == long(NextId(table), row) IN
    IF drink.kind # "return" THEN Handled(ErrorResponse(422), inserted.value)
    ELSE Handled(Response(200, [success |-> TRUE, drinks |-> <<drink.value>>]),
                 inserted.value)

update_drink(payload, id, body, table) ==
    IF DOMAIN payload = {} THEN Handled(ErrorResponse(401), table)
    ELSE IF id \notin DOMAIN table THEN Handled(ErrorResponse(404), table)
    ELSE LET row == Row(BodyTitle(body), PyStr(BodyRecipe(body)))
             updated == Update(table, id, row) IN
    IF updated.kind # "return" THEN Handled(ErrorResponse(404), table)
    ELSE LET drink == long(id, row) IN
    IF drink.kind # "return" THEN Handled(ErrorResponse(404), updated.value)
    ELSE Handled(Response(200, [success |-> TRUE, drinks |-> <<drink.value>>]),
                 updated.value)

delete_drink(payload, id, table) ==
    IF DOMAIN payload = {} THEN Handled(ErrorResponse(401), table)
    ELSE IF id \notin DOMAIN table THEN Handled(ErrorResponse(404), table)
    ELSE Handled(Response(200, [success |-> TRUE, delete |-> id]),
                 Delete(table, id).value)

(* ------------------------------- inputs -------------------------------- *)

\* A token every check accepts, holding all four permissions.
GoodToken == <<"1", "1", "R", "9", "d", "f", "a">>

\* Tokens that differ in their permissions claim only.
PermTokens == { <<"1", "1", "R", "9", "d", "f", c>> : c \in PermChars }

\* Tokens that differ in exp, aud and iss.
ClaimTokens ==
    { <<"1", "1", "R", x, a, i, "a">> : x \in ExpChars, a \in AudChars, i \in IssChars }

\* Tokens that differ in kid, signing key and algorithm.
KeyTokens ==
    { <<k, g, al, "9", "d", "f", "a">> : k \in KidChars, g \in SigChars, al \in AlgChars }

Tokens == PermTokens \cup ClaimTokens \cup KeyTokens

Junk == <<"z">>

\* Authorization values that are not 'Bearer', one space, a token.
OddValues ==
    { Str_bearer \o <<SP>> \o GoodToken,
      Str_BEARER \o <<SP>> \o GoodToken,
      Str_Basic \o <<SP>> \o GoodToken,
      Str_Bearer,
      GoodToken,
      <<>>,
      Str_Bearer \o <<SP>>,
      Str_Bearer \o <<SP>> \o Junk,
      Str_Bearer \o <<SP>> \o GoodToken \o <<SP>> \o Junk,
      Str_Bearer \o <<SP>> \o GoodToken \o <<TAB>> \o Junk,
      Str_Bearer \o <<SP, SP>> \o GoodToken,
      Str_Bearer \o <<TAB>> \o GoodToken,
      <<SP>> \o Str_Bearer \o <<SP>> \o GoodToken }

AuthorizationValues == { Str_Bearer \o <<SP>> \o t : t \in Tokens } \cup OddValues

Headers == {NoHeaders} \cup { WithAuthorization(v) : v \in AuthorizationValues }

\* The headers tried on the public route.
PublicHeaders ==
    { NoHeaders,
      WithAuthorization(Str_Bearer \o <<SP>> \o GoodToken),
      WithAuthorization(Str_Basic \o <<SP>> \o GoodToken) }

FlatWhite ==
    [title |-> "Flat White",
     recipe |-> <<Ingredient("#6f4e37", "espresso", 1), Ingredient("#ffffff", "milk", 2)>>]

\* A body that holds a title and no recipe.
Mocha == [title |-> "Mocha"]

Bodies == {FlatWhite, Mocha}

\* An id of a seeded drink and the last id the table can hold.
Ids == {1, MaxDrinks}

(* ============================ the trivia API =========================== *)

QUESTIONS_PER_PAGE == 10

\* A row of the question table.
QuestionRow(question, answer, category, difficulty) ==
    [question |-> question, answer |-> answer, category |-> category,
     difficulty |-> difficulty]

\* What a query returns for the row id of the table: a Question object.
QuestionObject(table, id) == [id |-> id, row |-> table[id]]

\* Question.format()
format(question) ==
    [id |-> question.id, question |-> question.row.question,
     answer |-> question.row.answer, category |-> question.row.category,
     difficulty |-> question.row.difficulty]

\* Question.query.order_by(Question.id).all()
AllQuestions(table) ==
    LET ids == Ascending(DOMAIN table) IN
    [k \in 1..Len(ids) |-> QuestionObject(table, ids[k])]

\* The objects of a selection the test keeps, in the order of the selection.
RECURSIVE Filter(_, _)
Filter(selection, keep) ==
    IF selection = <<>> THEN <<>>
    ELSE IF Head(selection).id \in keep
         THEN <<Head(selection)>> \o Filter(Tail(selection), keep)
         ELSE Filter(Tail(selection), keep)

\* An index of a Python slice over a list of n items: a negative index
\* counts from the end, and the result is clamped to 0..n.
SliceIndex(i, n) ==
    IF i < 0 THEN (IF i + n < 0 THEN 0 ELSE i + n)
    ELSE IF i > n THEN n ELSE i

\* list[start:end]
Slice(list, start, end) ==
    LET from == SliceIndex(start, Len(list))
        to == SliceIndex(end, Len(list)) IN
    IF from >= to THEN <<>> ELSE SubSeq(list, from + 1, to)

\* request.args of a request without a page.
NoArgs == [lang |-> "en"]

WithPage(page) == [lang |-> "en", page |-> page]

\* request.args.get('page', 1, type=int)
PageOf(args) == IF "page" \in DOMAIN args THEN args.page ELSE 1

paginate_questions(args, selection) ==
    LET page == PageOf(args)
        start == (page - 1) * QUESTIONS_PER_PAGE
        end == start + QUESTIONS_PER_PAGE
        formatted == [k \in 1..Len(selection) |-> format(selection[k])]
        current_questions == Slice(formatted, start, end) IN
    current_questions

\* The types of the category table by id, and the list the routes build
\* from it: [None] * (len(categories) + 1) filled at each category's id.
CategoryTypes == <<"Science", "Art", "History">>

FormattedCategories == <<None>> \o CategoryTypes

\* The error handlers of the trivia app; a status without one gets Flask's
\* page.
TriviaError(status) ==
    CASE status = 404 -> Response(404, [success |-> FALSE, error |-> 404,
                                        message |-> "resource not found"])
      [] status = 405 -> Response(405, [success |-> FALSE, error |-> 405,
                                        message |-> "method not allowed"])
      [] status = 422 -> Response(422, [success |-> FALSE, error |-> 422,
                                        message |-> "unprocessable"])
      [] OTHER -> Response(status, [html |-> "default error page"])

\* What a route leaves behind: the response, the table and the sequence.
Done(response, table, seq) == [response |-> response, table |-> table, seq |-> seq]

get_questions(args, table, seq) ==
    LET selection == AllQuestions(table)
        current_questions == paginate_questions(args, selection) IN
    IF Len(current_questions) = 0 THEN Done(TriviaError(404), table, seq)
    ELSE Done(Response(200, [success |-> TRUE,
                             questions |-> current_questions,
                             total_questions |-> Len(selection),
                             current_category |-> current_questions[1].category,
                             categories |-> FormattedCategories]),
              table, seq)

\* Question.delete(): delete and commit.
DeleteQuestionRow(table, id) == [i \in DOMAIN table \ {id} |-> table[i]]

\* Mutant: the questions are counted before the row is deleted.
MutDeleteQuestionCountsBefore(question_id, args, table, seq) ==
    IF question_id \notin DOMAIN table THEN Done(TriviaError(404), table, seq)
    ELSE LET left == DeleteQuestionRow(table, question_id)
             selection == AllQuestions(table)
             current_questions == paginate_questions(args, selection) IN
         Done(Response(200, [success |-> TRUE,
                             deleted |-> question_id,
                             questions |-> current_questions,
                             total_questions |-> Len(selection)]),
              left, seq)

delete_question(question_id, args, table, seq) ==
    IF question_id \notin DOMAIN table THEN Done(TriviaError(404), table, seq)
    ELSE LET left == DeleteQuestionRow(table, question_id)
             selection == AllQuestions(left)
             current_questions == paginate_questions(args, selection) IN
         Done(Response(200, [success |-> TRUE,
                             deleted |-> question_id,
                             questions |-> current_questions,
                             total_questions |-> Len(selection)]),
              left, seq)

\* body.get(key, default) of the body of POST /questions.
BodyGet(body, key, default) == IF key \in DOMAIN body THEN body[key] ELSE default

create_question(body, args, table, seq) ==
    LET row == QuestionRow(body.question, body.answer,
                           BodyGet(body, "category", 1),
                           BodyGet(body, "difficulty", 1))
        id == seq + 1
        added == [i \in DOMAIN table \cup {id} |->
                     IF i \in DOMAIN table THEN table[i] ELSE row]
        selection == AllQuestions(added)
        current_questions == paginate_questions(args, selection) IN
    Done(Response(200, [success |-> TRUE,
                        created |-> id,
                        questions |-> current_questions,
                        total_questions |-> Len(selection)]),
         added, id)

\* text ILIKE pattern: '%' stands for any run of characters, '_' for any
\* single character, every other character for itself in either case.
RECURSIVE ilike(_, _)
ilike(text, pattern) ==
    IF pattern = <<>> THEN text = <<>>
    ELSE IF Head(pattern) = "%"
         THEN ilike(text, Tail(pattern)) \/ (text # <<>> /\ ilike(Tail(text), pattern))
    ELSE IF text = <<>> THEN FALSE
    ELSE /\ (Head(pattern) = "_" \/ LowerChar(Head(pattern)) = LowerChar(Head(text)))
         /\ ilike(Tail(text), Tail(pattern))

\* body.get('searchTerm', '')
SearchTerm(body) == IF "searchTerm" \in DOMAIN body THEN body.searchTerm ELSE <<>>

search_by_term(body, table, seq) ==
    LET term == SearchTerm(body) IN
    IF term = <<>> THEN Done(TriviaError(422), table, seq)
    ELSE LET found == { i \in DOMAIN table :
                           ilike(table[i].question, <<"%">> \o term \o <<"%">>) }
             questions_found == Filter(AllQuestions(table), found)
             formatted_questions ==
                 [k \in 1..Len(questions_found) |-> format(questions_found[k])]
             current_category ==
                 IF Len(formatted_questions) > 0
                 THEN formatted_questions[1].category
                 ELSE NoValue IN
         Done(Response(200, [success |-> TRUE,
                             questions |-> formatted_questions,
                             total_questions |-> Len(formatted_questions),
                             current_category |-> current_category]),
              table, seq)

get_questions_per_category(category_id, table, seq) ==
    LET found == { i \in DOMAIN table : table[i].category = category_id }
        questions_found == Filter(AllQuestions(table), found) IN
    IF Len(questions_found) = 0 THEN Done(TriviaError(404), table, seq)
    ELSE LET formatted_questions ==
                 [k \in 1..Len(questions_found) |-> format(questions_found[k])] IN
         Done(Response(200, [success |-> TRUE,
                             questions |-> formatted_questions,
                             total_questions |-> Len(formatted_questions),
                             current_category |-> category_id]),
              table, seq)

Range(list) == { list[k] : k \in 1..Len(list) }

\* The answers find_next_question can give: random.shuffle puts any
\* question of the category first, so the first question of the shuffled
\* list that was not played can be any question that was not played.
find_next_question(body, table) ==
    LET previous_questions == BodyGet(body, "previous_questions", <<>>) IN
    IF "quiz_category" \notin DOMAIN body THEN {TriviaError(500)}
    ELSE LET found == IF body.quiz_category.id = 0 THEN DOMAIN table
                      ELSE { i \in DOMAIN table :
                                table[i].category = body.quiz_category.id }
             category_questions == Filter(AllQuestions(table), found)
             formatted_cat_questions ==
                 { format(category_questions[k]) : k \in 1..Len(category_questions) } IN
    IF Len(previous_questions) > 0
    THEN LET unplayed == { q \in formatted_cat_questions :
                              q.id \notin Range(previous_questions) } IN
         IF unplayed = {}
         THEN {Response(200, [success |-> TRUE, question |-> NoValue])}
         ELSE { Response(200, [success |-> TRUE, question |-> q]) : q \in unplayed }
    ELSE IF formatted_cat_questions = {} THEN {TriviaError(500)}
    ELSE { Response(200, [success |-> TRUE, question |-> q]) :
              q \in formatted_cat_questions }

(* --------------------------- trivia: inputs ---------------------------- *)

\* The question table holds ids up to MaxQuestionId.
MaxQuestionId == 13

\* The text of the seeded question i.
SeedText(i) ==
    CASE i = 1 -> <<"B", "e", "a", "r">>
      [] i = 2 -> <<"h", "a", "r", "e">>
      [] i = 3 -> <<"a", "b">>
      [] OTHER -> <<"e", "r", "a">>

\* Seeded questions alternate between the categories 2 and 1; no question
\* is in category 3.
SeedQuestion(i) == QuestionRow(SeedText(i), "yes", (i % 2) + 1, 1)

\* A table of n seeded questions with the ids 1..n.
SeedQuestions(n) == [i \in 1..n |-> SeedQuestion(i)]

\* One question more than a page holds, a few questions, and none.
QuestionTables ==
    { SeedQuestions(QUESTIONS_PER_PAGE + 1), SeedQuestions(3), SeedQuestions(0) }

Pages == {-1, 0, 1, 2, 3}

PageArgs == {NoArgs} \cup { WithPage(page) : page \in Pages }

WriteArgs == {NoArgs, WithPage(2)}

QuestionIds == {1, QUESTIONS_PER_PAGE + 1, QUESTIONS_PER_PAGE + 2}

NewQuestions ==
    { [question |-> <<"B", "e", "e">>, answer |-> "no", category |-> 3,
       difficulty |-> 2],
      [question |-> <<"5", "0", "%">>, answer |-> "half"] }

\* Search terms: part of a text in another case, a text no question
\* holds, the wildcards of LIKE, the empty term.
SearchTerms ==
    { <<"b", "e">>, <<"R", "E">>, <<"x">>, <<"%">>, <<"_">>, <<"a", "_">>, <<>> }

SearchBodies == { [searchTerm |-> term] : term \in SearchTerms } \cup {[term |-> <<"a">>]}

CategoryIds == {0, 1, 2, 3, 9}

QuizCategory(id) == [id |-> id, type |-> "click"]

PreviousLists == { <<>>, <<1>>, <<1, 3>>, <<2>>, <<1, 2, 3>> }

QuizBodies ==
    { [previous_questions |-> previous, quiz_category |-> QuizCategory(id)] :
         previous \in PreviousLists, id \in CategoryIds }

(* ---------------------------- trivia: state ---------------------------- *)

TriviaRequest(route, args, id, body) ==
    [route |-> route, args |-> args, id |-> id, body |-> body]

\* reply: the request handled by the latest step and its response.
Replied(req, response) == [req |-> req, response |-> response]

NoReply == Replied(TriviaRequest("none", NoArgs, 0, NoValue), Response(0, NoValue))

\* quiz: the category a client plays, the ids of the questions it was
\* given, in order, and whether it plays or the quiz is over or failed.
Quiz(category, previous, stage) ==
    [category |-> category, previous |-> previous, stage |-> stage]

NoQuiz == Quiz(0, <<>>, "none")

\* The trivia app with its seeded table, before any request.
TriviaAtRest ==
    /\ questions = SeedQuestions(3)
    /\ question_id_seq = QUESTIONS_PER_PAGE + 1
    /\ reply = NoReply
    /\ quiz = NoQuiz

(* ================================ Fyyur ================================ *)

\* The days run from 0 to MaxDay.
MaxDay == 2

\* A row of the Venue table, with the columns the /venues page reads.
VenueRow(name, city, state) == [name |-> name, city |-> city, state |-> state]

\* A row of the Show table.
ShowRow(venue_id, start_time) == [venue_id |-> venue_id, start_time |-> start_time]

\* The order of the database on the strings used as city and state.
Collation == <<"IL", "MA", "NY", "New York", "Springfield">>

Rank(text) == CHOOSE i \in 1..Len(Collation) : Collation[i] = text

\* ORDER BY city, state; rows equal in both come in the order of their ids.
Before(table, i, j) ==
    \/ Rank(table[i].city) < Rank(table[j].city)
    \/ /\ table[i].city = table[j].city
       /\ Rank(table[i].state) < Rank(table[j].state)
    \/ /\ table[i].city = table[j].city
       /\ table[i].state = table[j].state
       /\ i < j

\* Venue.query.order_by(Venue.city, Venue.state).all(), as Venue objects.
RECURSIVE OrderedVenues(_, _)
OrderedVenues(table, ids) ==
    IF ids = {} THEN <<>>
    ELSE LET first == CHOOSE i \in ids : \A j \in ids \ {i} : Before(table, i, j) IN
         <<[id |-> first, name |-> table[first].name, city |-> table[first].city,
            state |-> table[first].state]>>
            \o OrderedVenues(table, ids \ {first})

\* Show.query.filter(Show.venue_id == venue.id, Show.start_time >= today).count()
UpcomingShows(show_table, venue_id, day) ==
    Cardinality({ s \in DOMAIN show_table :
                     /\ show_table[s].venue_id = venue_id
                     /\ show_table[s].start_time >= day })

\* A location of the page: a city and state with the venues found there.
Location(city, state, venue_list) ==
    [city |-> city, state |-> state, venues |-> venue_list]

\* The loop of venues() over the remaining venues: data is the list built
\* so far and location the entry being filled, None before the first venue.
RECURSIVE GroupVenues(_, _, _, _, _)
GroupVenues(venue_list, show_table, day, data, location) ==
    IF venue_list = <<>> THEN Append(data, location)
    ELSE LET venue == Head(venue_list)
             venue_dict == [id |-> venue.id, name |-> venue.name,
                            num_upcoming_shows |->
                               UpcomingShows(show_table, venue.id, day)] IN
         IF /\ location # NoValue
            /\ venue.city = location.city
            /\ venue.state = location.state
         THEN GroupVenues(Tail(venue_list), show_table, day, data,
                          Location(location.city, location.state,
                                   Append(location.venues, venue_dict)))
         ELSE GroupVenues(Tail(venue_list), show_table, day,
                          IF location # NoValue THEN Append(data, location) ELSE data,
                          Location(venue.city, venue.state, <<venue_dict>>))

\* venues(): the areas handed to pages/venues.html.
venues_page(venue_table, show_table, day) ==
    GroupVenues(OrderedVenues(venue_table, DOMAIN venue_table), show_table, day,
                <<>>, NoValue)

(* ---------------------------- Fyyur: inputs ---------------------------- *)

\* Venues that share a city, a state, both or neither.
VenuePool ==
    [i \in 1..4 |->
        CASE i = 1 -> VenueRow("The Dive", "Springfield", "IL")
          [] i = 2 -> VenueRow("Park Hall", "New York", "NY")
          [] i = 3 -> VenueRow("The Barn", "Springfield", "MA")
          [] i = 4 -> VenueRow("Old Mill", "Springfield", "IL")]

VenueTables == { [i \in ids |-> VenuePool[i]] : ids \in SUBSET (DOMAIN VenuePool) }

\* Shows of the venues 1 and 4 on the days 0, 1 and MaxDay.
ShowPool ==
    [s \in 1..3 |->
        CASE s = 1 -> ShowRow(1, 0)
          [] s = 2 -> ShowRow(1, MaxDay)
          [] s = 3 -> ShowRow(4, 1)]

\* The show tables over a venue table: every show is at a stored venue.
ShowTables(venue_table) ==
    { [s \in ids |-> ShowPool[s]] :
         ids \in SUBSET { s \in DOMAIN ShowPool :
                             ShowPool[s].venue_id \in DOMAIN venue_table } }

\* Nothing rendered yet.
NoPage == <<[kind |-> "no page"]>>

\* Fyyur with empty tables, before any request.
FyyurAtRest ==
    /\ venues = [i \in {} |-> VenuePool[i]]
    /\ shows = [s \in {} |-> ShowPool[s]]
    /\ today = 0
    /\ areas = NoPage

(* ------------------------------- state --------------------------------- *)

Request(route, headers, id, body) ==
    [route |-> route, headers |-> headers, id |-> id, body |-> body]

\* No call of requires_auth at all.
NoAuth == Authorized(NoValue, NoValue, NoCalls, NoValue, 0)

\* last: the request handled by the latest step, with what the wrapper did
\* (auth), the permission of the route, whether the view function was
\* called (started) and with which payload, and the response.
Served(req, permission, auth, started, payload, response) ==
    [req |-> req, permission |-> permission, auth |-> auth, started |-> started,
     payload |-> payload, response |-> response]

NoRequest ==
    Served(Request("none", NoHeaders, 0, NoValue), None, NoAuth, FALSE, NoValue,
           Response(0, NoValue))

\* memo: the authorization of an earlier request with the key set and the
\* clock it ran against, kept to compare a later one with it. Nothing in
\* the code reads it. NotKept: nothing is kept; Awaited: the next
\* authorization is kept.
NotKept == [kind |-> "off"]

Awaited == [kind |-> "awaited"]

Kept(permission, headers, net, clock, auth) ==
    [kind |-> "kept", permission |-> permission, headers |-> headers,
     jwks |-> net, now |-> clock, auth |-> auth]

Keep(permission, headers, auth) ==
    IF memo = Awaited THEN Kept(permission, headers, jwks, now, auth) ELSE memo

Init ==
    /\ drinks = [i \in 1..Len(SeedDrinks) |-> SeedDrinks[i]]
    /\ jwks \in JwksOptions
    /\ now = 0
    /\ last = NoRequest
    /\ memo = NotKept
    /\ TriviaAtRest
    /\ FyyurAtRest

(* ------------------------------ actions -------------------------------- *)

\* The server handles one request at a time.
Idle == last = NoRequest

\* The wrapper called f(payload): the view ran, h is what it left behind.
Called(req, permission, auth, h) ==
    /\ drinks' = h.table
    /\ last' = Served(req, permission, auth, TRUE, auth.out.value, h.response)
    /\ memo' = Keep(permission, req.headers, auth)

\* The wrapper aborted before f: the abort goes to its error handler.
Rejected(req, permission, auth) ==
    /\ drinks' = drinks
    /\ last' = Served(req, permission, auth, FALSE, NoValue,
                      ErrorResponse(auth.out.status))
    /\ memo' = Keep(permission, req.headers, auth)

\* GET /drinks
GetDrinks(headers) ==
    LET h == get_drinks(drinks) IN
    /\ Idle
    /\ drinks' = h.table
    /\ last' = Served(Request("GET /drinks", headers, 0, NoValue), None, NoAuth,
                      TRUE, NoValue, h.response)
    /\ UNCHANGED <<jwks, now, memo, trivia_vars, fyyur_vars>>

\* GET /drinks-detail
GetDrinksDetail(headers) ==
    LET req == Request("GET /drinks-detail", headers, 0, NoValue)
        auth == requires_auth("get:drinks-detail", headers, jwks, now) IN
    /\ Idle
    /\ IF auth.out.kind = "return"
       THEN Called(req, "get:drinks-detail", auth,
                   get_drinks_detail(auth.out.value, drinks))
       ELSE Rejected(req, "get:drinks-detail", auth)
    /\ UNCHANGED <<jwks, now, trivia_vars, fyyur_vars>>

\* Mutant: POST /drinks declares the permission of GET /drinks-detail.
MutCreateDrinkWrongPermission(headers, body) ==
    LET req == Request("POST /drinks", headers, 0, body)
        auth == requires_auth("get:drinks-detail", headers, jwks, now) IN
    /\ Idle
    /\ NextId(drinks) <= MaxDrinks
    /\ IF auth.out.kind = "return"
       THEN Called(req, "post:drinks", auth, create_drink(auth.out.value, body, drinks))
       ELSE Rejected(req, "post:drinks", auth)
    /\ UNCHANGED <<jwks, now, trivia_vars, fyyur_vars>>

\* POST /drinks
CreateDrink(headers, body) ==
    LET req == Request("POST /drinks", headers, 0, body)
        auth == requires_auth("post:drinks", headers, jwks, now) IN
    /\ Idle
    /\ NextId(drinks) <= MaxDrinks
    /\ IF auth.out.kind = "return"
       THEN Called(req, "post:drinks", auth, create_drink(auth.out.value, body, drinks))
       ELSE Rejected(req, "post:drinks", auth)
    /\ UNCHANGED <<jwks, now, trivia_vars, fyyur_vars>>

\* PATCH /drinks/<id>
UpdateDrink(headers, id, body) ==
    LET req == Request("PATCH /drinks/<id>", headers, id, body)
        auth == requires_auth("patch:drinks", headers, jwks, now) IN
    /\ Idle
    /\ IF auth.out.kind = "return"
       THEN Called(req, "patch:drinks", auth,
                   update_drink(auth.out.value, id, body, drinks))
       ELSE Rejected(req, "patch:drinks", auth)
    /\ UNCHANGED <<jwks, now, trivia_vars, fyyur_vars>>

\* Mutant: DELETE /drinks/<id> looks the row up before it authorizes.
MutDeleteDrinkLooksUpFirst(headers, id) ==
    LET req == Request("DELETE /drinks/<id>", headers, id, NoValue)
        auth == IF id \in DOMAIN drinks
                THEN requires_auth("delete:drinks", headers, jwks, now)
                ELSE Authorized(Abort(404, "NotFound"), NoValue, NoCalls, NoValue, 0) IN
    /\ Idle
    /\ IF auth.out.kind = "return"
       THEN Called(req, "delete:drinks", auth, delete_drink(auth.out.value, id, drinks))
       ELSE Rejected(req, "delete:drinks", auth)
    /\ UNCHANGED <<jwks, now, trivia_vars, fyyur_vars>>

\* DELETE /drinks/<id>
DeleteDrink(headers, id) ==
    LET req == Request("DELETE /drinks/<id>", headers, id, NoValue)
        auth == requires_auth("delete:drinks", headers, jwks, now) IN
    /\ Idle
    /\ IF auth.out.kind = "return"
       THEN Called(req, "delete:drinks", auth, delete_drink(auth.out.value, id, drinks))
       ELSE Rejected(req, "delete:drinks", auth)
    /\ UNCHANGED <<jwks, now, trivia_vars, fyyur_vars>>

\* The response leaves the server and the request context is torn down.
Respond ==
    /\ ~Idle
    /\ last' = NoRequest
    /\ UNCHANGED <<drinks, jwks, now, memo, trivia_vars, fyyur_vars>>

\* The identity provider publishes another key set, or stops answering.
SetJwks(k) ==
    /\ Idle
    /\ k # jwks
    /\ jwks' = k
    /\ UNCHANGED <<drinks, now, last, memo, trivia_vars, fyyur_vars>>

\* Time passes.
Tick ==
    /\ Idle
    /\ now < MaxTime
    /\ now' = now + 1
    /\ UNCHANGED <<drinks, jwks, last, memo, trivia_vars, fyyur_vars>>

Next ==
    \/ \E headers \in PublicHeaders : GetDrinks(headers)
    \/ \E headers \in Headers : GetDrinksDetail(headers)
    \/ \E headers \in Headers, body \in Bodies : CreateDrink(headers, body)
    \/ \E headers \in Headers, id \in Ids, body \in Bodies : UpdateDrink(headers, id, body)
    \/ \E headers \in Headers, id \in Ids : DeleteDrink(headers, id)
    \/ Respond
    \/ \E k \in JwksOptions : SetJwks(k)
    \/ Tick

Spec == Init /\ [][Next]_vars

(* ---------------- requires_auth for any permission --------------------- *)

\* The permissions a route may declare, with the default of requires_auth.
DeclaredPermissions == Permissions \cup {""}

\* The wrapper of requires_auth(permission) around a view that only
\* returns: f is called with the payload, or the abort is answered.
Wrapper(permission, headers) ==
    LET req == Request("wrapper", headers, 0, NoValue)
        auth == requires_auth(permission, headers, jwks, now) IN
    /\ Idle
    /\ IF auth.out.kind = "return"
       THEN Called(req, permission, auth, Handled(Response(200, auth.out.value), drinks))
       ELSE Rejected(req, permission, auth)
    /\ UNCHANGED <<jwks, now, trivia_vars, fyyur_vars>>

NextAuthorize ==
    \/ \E permission \in DeclaredPermissions, headers \in Headers :
          Wrapper(permission, headers)
    \/ Respond
    \/ \E k \in JwksOptions : SetJwks(k)
    \/ Tick

SpecAuthorize == Init /\ [][NextAuthorize]_vars

(* --------------- the same authorization, asked again ------------------- *)

\* The first authorization of a behaviour is kept in memo while requests
\* of a few clients go on, the key set is replaced and put back, and time
\* passes.
ExpiringToken == <<"1", "1", "R", "0", "d", "f", "a">>

RepeatHeaders ==
    { WithAuthorization(Str_Bearer \o <<SP>> \o GoodToken),
      WithAuthorization(Str_Bearer \o <<SP>> \o ExpiringToken),
      WithAuthorization(Str_Bearer \o <<SP>> \o <<"2", "2", "R", "9", "d", "f", "d">>) }

RepeatJwks == { JwksDoc(<<Key("1", "1"), Key("2", "2")>>), JwksDoc(<<Key("1", "2")>>) }

InitRepeat ==
    /\ drinks = [i \in 1..Len(SeedDrinks) |-> SeedDrinks[i]]
    /\ jwks \in RepeatJwks
    /\ now = 0
    /\ last = NoRequest
    /\ memo = Awaited
    /\ TriviaAtRest
    /\ FyyurAtRest

NextRepeat ==
    \/ GetDrinks(NoHeaders)
    \/ \E headers \in RepeatHeaders : GetDrinksDetail(headers)
    \/ \E headers \in RepeatHeaders, body \in Bodies : CreateDrink(headers, body)
    \/ \E headers \in RepeatHeaders, id \in Ids, body \in Bodies :
          UpdateDrink(headers, id, body)
    \/ \E headers \in RepeatHeaders, id \in Ids : DeleteDrink(headers, id)
    \/ Respond
    \/ \E k \in RepeatJwks : SetJwks(k)
    \/ Tick

SpecRepeat == InitRepeat /\ [][NextRepeat]_vars

(* ---------------------------- the trivia API --------------------------- *)

\* The trivia server handles one request at a time.
Quiet == reply = NoReply

\* A route answered: done is what it left behind.
Answered(req, done) ==
    /\ questions' = done.table
    /\ question_id_seq' = done.seq
    /\ reply' = Replied(req, done.response)
    /\ UNCHANGED <<quiz, coffee_vars, fyyur_vars>>

\* GET /questions
GetQuestions(args) ==
    /\ Quiet
    /\ Answered(TriviaRequest("GET /questions", args, 0, NoValue),
                get_questions(args, questions, question_id_seq))

\* DELETE /questions/<question_id>
DeleteQuestion(question_id, args) ==
    /\ Quiet
    /\ Answered(TriviaRequest("DELETE /questions/<id>", args, question_id, NoValue),
                delete_question(question_id, args, questions, question_id_seq))

\* POST /questions
CreateQuestion(body, args) ==
    /\ Quiet
    /\ question_id_seq < MaxQuestionId
    /\ Answered(TriviaRequest("POST /questions", args, 0, body),
                create_question(body, args, questions, question_id_seq))

\* POST /searches
SearchByTerm(body) ==
    /\ Quiet
    /\ Answered(TriviaRequest("POST /searches", NoArgs, 0, body),
                search_by_term(body, questions, question_id_seq))

\* GET /categories/<category_id>/questions
GetQuestionsPerCategory(category_id) ==
    /\ Quiet
    /\ Answered(TriviaRequest("GET /categories/<id>/questions", NoArgs, category_id,
                              NoValue),
                get_questions_per_category(category_id, questions, question_id_seq))

\* POST /quizzes
FindNextQuestion(body) ==
    /\ Quiet
    /\ \E response \in find_next_question(body, questions) :
          Answered(TriviaRequest("POST /quizzes", NoArgs, 0, body),
                   Done(response, questions, question_id_seq))

\* The response leaves the trivia server.
TriviaRespond ==
    /\ ~Quiet
    /\ reply' = NoReply
    /\ UNCHANGED <<questions, question_id_seq, quiz, coffee_vars, fyyur_vars>>

InitTrivia ==
    /\ drinks = [i \in 1..Len(SeedDrinks) |-> SeedDrinks[i]]
    /\ jwks = JwksDown
    /\ now = 0
    /\ last = NoRequest
    /\ memo = NotKept
    /\ questions \in QuestionTables
    /\ question_id_seq = QUESTIONS_PER_PAGE + 1
    /\ reply = NoReply
    /\ quiz = NoQuiz
    /\ FyyurAtRest

NextTrivia ==
    \/ \E args \in PageArgs : GetQuestions(args)
    \/ \E question_id \in QuestionIds, args \in WriteArgs :
          DeleteQuestion(question_id, args)
    \/ \E body \in NewQuestions, args \in WriteArgs : CreateQuestion(body, args)
    \/ \E body \in SearchBodies : SearchByTerm(body)
    \/ \E category_id \in CategoryIds : GetQuestionsPerCategory(category_id)
    \/ \E body \in QuizBodies : FindNextQuestion(body)
    \/ TriviaRespond

SpecTrivia == InitTrivia /\ [][NextTrivia]_vars

(* ------------------------- a client's quiz ----------------------------- *)

\* The client starts a quiz in a category with nothing played.
StartQuiz(category) ==
    /\ quiz' = Quiz(category, <<>>, "playing")
    /\ reply' = NoReply
    /\ UNCHANGED <<questions, question_id_seq, coffee_vars, fyyur_vars>>

\* The client posts what it played to /quizzes and appends the id of the
\* question it is given; a null question ends the quiz.
PlayRound ==
    LET body == [previous_questions |-> quiz.previous,
                 quiz_category |-> QuizCategory(quiz.category)] IN
    /\ quiz.stage = "playing"
    /\ \E response \in find_next_question(body, questions) :
          /\ reply' = Replied(TriviaRequest("POST /quizzes", NoArgs, 0, body), response)
          /\ quiz' = IF response.status # 200
                     THEN Quiz(quiz.category, quiz.previous, "failed")
                     ELSE IF response.body.question = NoValue
                     THEN Quiz(quiz.category, quiz.previous, "over")
                     ELSE Quiz(quiz.category,
                               Append(quiz.previous, response.body.question.id),
                               "playing")
    /\ UNCHANGED <<questions, question_id_seq, coffee_vars, fyyur_vars>>

\* Tables a quiz is played on: in the largest, categories 1 and 2 hold two
\* questions each and category 3 none.
QuizTables == { SeedQuestions(n) : n \in 0..4 }

InitQuiz ==
    /\ drinks = [i \in 1..Len(SeedDrinks) |-> SeedDrinks[i]]
    /\ jwks = JwksDown
    /\ now = 0
    /\ last = NoRequest
    /\ memo = NotKept
    /\ questions \in QuizTables
    /\ question_id_seq = QUESTIONS_PER_PAGE + 1
    /\ reply = NoReply
    /\ quiz = NoQuiz
    /\ FyyurAtRest

NextQuiz ==
    \/ \E category \in CategoryIds : StartQuiz(category)
    \/ PlayRound

SpecQuiz == InitQuiz /\ [][NextQuiz]_vars

(* -------------------------------- Fyyur -------------------------------- *)

\* GET /venues
Venues ==
    /\ areas' = venues_page(venues, shows, today)
    /\ UNCHANGED <<venues, shows, today, coffee_vars, trivia_vars>>

\* A day passes.
DayPasses ==
    /\ today < MaxDay
    /\ today' = today + 1
    /\ areas' = NoPage
    /\ UNCHANGED <<venues, shows, coffee_vars, trivia_vars>>

InitFyyur ==
    /\ drinks = [i \in 1..Len(SeedDrinks) |-> SeedDrinks[i]]
    /\ jwks = JwksDown
    /\ now = 0
    /\ last = NoRequest
    /\ memo = NotKept
    /\ TriviaAtRest
    /\ venues \in VenueTables
    /\ shows \in ShowTables(venues)
    /\ today = 0
    /\ areas = NoPage

NextFyyur ==
    \/ Venues
    \/ DayPasses

SpecFyyur == InitFyyur /\ [][NextFyyur]_vars

(* ======================= properties of the code ======================== *)

(* What the properties say about a request, stated from the request itself, *)
(* the key set and the clock, without the operators of the code above.      *)

\* 'bearer' in any letter case, one space, and a run without a space.
BearerOneSpace(v) ==
    /\ Len(v) >= 7
    /\ Lower(SubSeq(v, 1, 6)) = Str_bearer
    /\ v[7] = SP
    /\ \A i \in 8..Len(v) : v[i] # SP

CandidateToken(v) == SubSeq(v, 8, Len(v))

HasAuthorization(headers) == "Authorization" \in DOMAIN headers

\* The token is signed by a key the key set lists under the token's kid,
\* with the configured algorithm, audience and issuer, and is not expired.
TokenVerifies(token, net, clock) ==
    /\ net.up
    /\ "keys" \in DOMAIN net.doc
    /\ Parseable(token)
    /\ "kid" \in DOMAIN TokenHeader(token)
    /\ \E k \in 1..Len(net.doc.keys) :
          /\ net.doc.keys[k].kid = TokenHeader(token).kid
          /\ net.doc.keys[k].n = TokenSigner(token)
    /\ TokenHeader(token).alg = "RS256"
    /\ TokenClaims(token).exp >= clock
    /\ TokenClaims(token).aud = "drinks"
    /\ TokenClaims(token).iss = "https://full.eu.auth0.com/"

RequestVerified(headers, net, clock) ==
    /\ HasAuthorization(headers)
    /\ BearerOneSpace(headers.Authorization)
    /\ TokenVerifies(CandidateToken(headers.Authorization), net, clock)

RequestPermitted(headers, permission, net, clock) ==
    /\ RequestVerified(headers, net, clock)
    /\ "permissions" \in DOMAIN TokenClaims(CandidateToken(headers.Authorization))
    /\ permission \in TokenClaims(CandidateToken(headers.Authorization)).permissions

GuardedRoutes ==
    {"GET /drinks-detail", "POST /drinks", "PATCH /drinks/<id>", "DELETE /drinks/<id>"}

WritingRoutes == {"POST /drinks", "PATCH /drinks/<id>", "DELETE /drinks/<id>"}

\* The permission declared for each guarded route.
RoutePermission(route) ==
    CASE route = "GET /drinks-detail" -> "get:drinks-detail"
      [] route = "POST /drinks" -> "post:drinks"
      [] route = "PATCH /drinks/<id>" -> "patch:drinks"
      [] route = "DELETE /drinks/<id>" -> "delete:drinks"

\* The latest step handled a request behind requires_auth.
GuardedRequest == last.permission # None

\* The token of the latest request, when its header is well formed.
LastToken == CandidateToken(last.req.headers.Authorization)

AuthStatuses == {400, 401, 403}

\* C1: the view function of a guarded route is called with a payload only
\* when the signature verified against the key the fetched key set lists
\* under the token's kid, audience and issuer matched the configuration and
\* the token was not expired; the payload is the token's claims, and the key
\* set was fetched and the token decoded in that request.
C1_PayloadOnlyFromVerifiedToken ==
    (GuardedRequest /\ (last.started \/ last.payload # NoValue)) =>
        /\ RequestVerified(last.req.headers, jwks, now)
        /\ last.started
        /\ last.payload = TokenClaims(LastToken)
        /\ last.auth.fetches = 1
        /\ last.auth.decodes = 1

C1_Witness ==
    /\ last.req.route = "POST /drinks"
    /\ last.started
    /\ last.payload = TokenClaims(GoodToken)
    /\ last.response.status = 200

\* C2: when the request to a guarded route is not authorized (no header, a
\* malformed header, no key, a failed signature or claim check, a missing
\* permission), the view function is not called, the drinks table is what
\* it was before the request, and the answer is an authorization error.
C2_NoEffectWhenAuthorizationFails ==
    [][ ( /\ last' # NoRequest
          /\ last'.req.route \in GuardedRoutes
          /\ ~RequestPermitted(last'.req.headers, RoutePermission(last'.req.route),
                               jwks, now) )
        => ( /\ ~last'.started
             /\ last'.auth.out.kind = "abort"
             /\ drinks' = drinks
             /\ last'.response.status \in AuthStatuses ) ]_vars

C2_Witness ==
    /\ last.req.route = "DELETE /drinks/<id>"
    /\ last.req.id \in DOMAIN drinks
    /\ last.auth.out = Abort(403, "Forbidden")
    /\ ~last.started

\* C3: the drinks table changes only in a request to POST /drinks, PATCH
\* /drinks/<id> or DELETE /drinks/<id> whose verified token lists the
\* permission of that very route, and GET /drinks-detail answers 200 only
\* to a verified token listing 'get:drinks-detail'; a token that lists the
\* permission of another route only never starts the view function.
C3_OnlyTheRoutePermissionAuthorizes ==
    [][ /\ (drinks' # drinks) =>
              /\ last'.req.route \in WritingRoutes
              /\ RequestPermitted(last'.req.headers,
                                  RoutePermission(last'.req.route), jwks, now)
        /\ (last'.req.route = "GET /drinks-detail" /\ last'.response.status = 200) =>
              RequestPermitted(last'.req.headers, "get:drinks-detail", jwks, now)
        /\ ( /\ last'.req.route \in GuardedRoutes
             /\ HasAuthorization(last'.req.headers)
             /\ BearerOneSpace(last'.req.headers.Authorization)
             /\ Parseable(CandidateToken(last'.req.headers.Authorization))
             /\ RoutePermission(last'.req.route) \notin
                   TokenPermissions(CandidateToken(last'.req.headers.Authorization)) )
           => ~last'.started ]_vars

C3_Witness ==
    /\ last.req.route = "DELETE /drinks/<id>"
    /\ last.req.headers =
          WithAuthorization(Str_Bearer \o <<SP>> \o <<"1", "1", "R", "9", "d", "f", "d">>)
    /\ last.response.status = 200
    /\ last.req.id \notin DOMAIN drinks

\* C4: a verified token whose permissions list holds the permission of the
\* route is authorized without error: nothing is raised, the view function
\* is called with exactly the token's claims, permissions list included,
\* and the answer is no authorization error.
C4_PermittedTokenReachesTheView ==
    (GuardedRequest /\ RequestPermitted(last.req.headers, last.permission, jwks, now)) =>
        /\ last.started
        /\ last.auth.out = Return(TokenClaims(LastToken))
        /\ last.auth.raised = NoValue
        /\ last.payload = TokenClaims(LastToken)
        /\ last.payload.permissions = TokenPermissions(LastToken)
        /\ last.response.status \notin AuthStatuses

C4_Witness ==
    /\ last.req.route = "GET /drinks-detail"
    /\ last.req.headers =
          WithAuthorization(Str_Bearer \o <<SP>> \o <<"1", "1", "R", "9", "d", "f", "g">>)
    /\ last.started
    /\ last.payload.permissions = {"get:drinks-detail"}
    /\ last.response.status = 200

\* C5: a verified token whose permissions claim is present and does not
\* hold the permission of the route is rejected by abort(403) in
\* check_permissions: the answer is 403 forbidden and the view is not called.
C5_MissingPermissionIsForbidden ==
    ( /\ GuardedRequest
      /\ RequestVerified(last.req.headers, jwks, now)
      /\ "permissions" \in DOMAIN TokenClaims(LastToken)
      /\ last.permission \notin TokenClaims(LastToken).permissions ) =>
        /\ last.auth.out = Abort(403, "Forbidden")
        /\ last.response = ErrorResponse(403)
        /\ last.response.status = 403
        /\ ~last.started

C5_Witness ==
    /\ last.req.route = "DELETE /drinks/<id>"
    /\ last.permission = "delete:drinks"
    /\ RequestVerified(last.req.headers, jwks, now)
    /\ "permissions" \in DOMAIN TokenClaims(LastToken)
    /\ TokenClaims(LastToken).permissions = {"get:drinks-detail"}
    /\ last.response.status = 403

\* C6: a verified token without a permissions claim is rejected by
\* abort(400) in check_permissions whatever permission is required, the
\* default '' of requires_auth included: the answer has status 400 and the
\* view is not called.
C6_NoPermissionsClaimIsBadRequest ==
    ( /\ GuardedRequest
      /\ RequestVerified(last.req.headers, jwks, now)
      /\ "permissions" \notin DOMAIN TokenClaims(LastToken) ) =>
        /\ last.auth.out = Abort(400, "MissingPermissionsClaim")
        /\ last.response.status = 400
        /\ ~last.started

C6_Witness ==
    /\ last.req.route = "wrapper"
    /\ last.permission = ""
    /\ RequestVerified(last.req.headers, jwks, now)
    /\ "permissions" \notin DOMAIN TokenClaims(LastToken)
    /\ last.response.status = 400

\* C7: a request to a guarded route without an Authorization header is
\* rejected by abort(401) in get_token_auth_header, before the key set is
\* fetched and before any token is parsed, decoded or checked.
C7_MissingHeaderIsUnauthorized ==
    (GuardedRequest /\ ~HasAuthorization(last.req.headers)) =>
        /\ last.auth.out = Abort(401, "MissingHeader")
        /\ last.response = ErrorResponse(401)
        /\ last.response.status = 401
        /\ last.auth.fetches = 0
        /\ last.auth.parses = 0
        /\ last.auth.decodes = 0
        /\ last.auth.checks = 0
        /\ ~last.started

C7_Witness ==
    /\ last.req.route = "PATCH /drinks/<id>"
    /\ last.req.headers = NoHeaders
    /\ last.response.status = 401
    /\ last.auth.fetches = 0

\* C8: an Authorization value that is not 'bearer' (in any letter case),
\* one space and a run without a space is rejected by abort(401) in
\* get_token_auth_header, before the key set is fetched; a value that is
\* not two whitespace-separated words of which the first is 'bearer' is
\* answered 401 with the view not called; and for 'bearer' in any letter
\* case, one space and a run t without a space the candidate token is t.
C8_MalformedHeaderIsUnauthorized ==
    (GuardedRequest /\ HasAuthorization(last.req.headers)) =>
        LET v == last.req.headers.Authorization IN
        /\ ~BearerOneSpace(v) =>
              /\ last.auth.out = Abort(401, "MalformedHeader")
              /\ last.auth.fetches = 0
              /\ last.auth.parses = 0
        /\ (Len(Words(v)) # 2 \/ Lower(Words(v)[1]) # Str_bearer) =>
              /\ last.response = ErrorResponse(401)
              /\ last.response.status = 401
              /\ ~last.started
        /\ BearerOneSpace(v) => last.auth.header = Return(CandidateToken(v))

C8_Witness ==
    /\ last.req.route = "GET /drinks-detail"
    /\ last.req.headers = WithAuthorization(Str_Basic \o <<SP>> \o GoodToken)
    /\ last.auth.out = Abort(401, "MalformedHeader")
    /\ last.response.status = 401

\* 'bearer' in any letter case, a non-empty run of whitespace, and a
\* non-empty run without whitespace.
BearerRunToken(v) ==
    /\ Len(Words(v)) = 2
    /\ Lower(Words(v)[1]) = Str_bearer
    /\ v[1] \notin Whitespace
    /\ v[Len(v)] \notin Whitespace

\* The run of whitespace between the two words.
Separator(v) == SubSeq(v, Len(Words(v)[1]) + 1, Len(v) - Len(Words(v)[2]))

\* C9 as stated: 'Bearer', any non-empty run of whitespace (one space,
\* several spaces, a tab) and a token are accepted with that token as the
\* candidate token.
C9_AsStated ==
    ( /\ GuardedRequest
      /\ HasAuthorization(last.req.headers)
      /\ BearerRunToken(last.req.headers.Authorization) ) =>
        last.auth.header = Return(Words(last.req.headers.Authorization)[2])

\* C9: the Authorization value is split on the single space character:
\* 'Bearer', exactly one space and a token are accepted with that token as
\* the candidate token; with several spaces or a tab between them the
\* request is rejected by abort(401) in get_token_auth_header.
C9_SplitOnSingleSpace ==
    ( /\ GuardedRequest
      /\ HasAuthorization(last.req.headers)
      /\ BearerRunToken(last.req.headers.Authorization) ) =>
        LET v == last.req.headers.Authorization IN
        IF Separator(v) = <<SP>>
        THEN last.auth.header = Return(Words(v)[2])
        ELSE /\ last.auth.header = Abort(401, "MalformedHeader")
             /\ last.auth.out = Abort(401, "MalformedHeader")
             /\ last.response.status = 401
             /\ ~last.started

C9_Witness ==
    /\ last.req.route = "GET /drinks-detail"
    /\ last.req.headers = WithAuthorization(Str_Bearer \o <<SP, SP>> \o GoodToken)
    /\ jwks = JwksDoc(<<Key("1", "1"), Key("2", "2")>>)
    /\ last.auth.out = Abort(401, "MalformedHeader")
    /\ last.response.status = 401

\* C10: for a token whose header holds no kid, whatever the fetched key set
\* holds, verify_decode_jwt raises AuthError invalid_header 'Authorization
\* malformed.' with status 401, jwt.decode is not called, the answer is 401
\* and the view is not called.
C10_TokenWithoutKidIsUnauthorized ==
    ( /\ GuardedRequest
      /\ HasAuthorization(last.req.headers)
      /\ BearerOneSpace(last.req.headers.Authorization)
      /\ Parseable(LastToken)
      /\ "kid" \notin DOMAIN TokenHeader(LastToken) ) =>
        /\ jwks.up =>
              last.auth.raised =
                 [kind |-> "AuthError",
                  error |-> [code |-> "invalid_header",
                             description |-> "Authorization malformed."],
                  status_code |-> 401, site |-> "MalformedHeader"]
        /\ last.auth.decodes = 0
        /\ last.response.status = 401
        /\ ~last.started

C10_Witness ==
    /\ last.req.route = "POST /drinks"
    /\ last.req.headers =
          WithAuthorization(Str_Bearer \o <<SP>> \o <<"0", "1", "R", "9", "d", "f", "a">>)
    /\ jwks = JwksDoc(<<Key("1", "1"), Key("2", "2")>>)
    /\ last.auth.raised.kind = "AuthError"
    /\ last.auth.raised.status_code = 401
    /\ last.auth.decodes = 0

(* ------------------- failures of verify_decode_jwt --------------------- *)

\* The latest request went to a guarded route with 'bearer', one space and
\* a run without a space as its Authorization value.
BearerRequest ==
    /\ GuardedRequest
    /\ HasAuthorization(last.req.headers)
    /\ BearerOneSpace(last.req.headers.Authorization)

\* The key set was fetched and lists its keys.
KeySetFetched(net) == net.up /\ "keys" \in DOMAIN net.doc

\* The token header parses and names a kid.
TokenNamesKid(token) == Parseable(token) /\ "kid" \in DOMAIN TokenHeader(token)

\* No key of the fetched key set has the kid of the token.
KidUnknown(token, net) ==
    /\ KeySetFetched(net)
    /\ TokenNamesKid(token)
    /\ \A k \in 1..Len(net.doc.keys) : net.doc.keys[k].kid # TokenHeader(token).kid

\* C11: a request to a guarded route with a token whose kid matches no key
\* of the fetched key set is rejected as KeyNotFound (AuthError
\* invalid_header 'Unable to find the appropriate key.') and answered with
\* status 400.
C11_UnknownKidIsKeyNotFound400 ==
    (BearerRequest /\ KidUnknown(LastToken, jwks)) =>
        /\ ~last.started
        /\ last.auth.raised.kind = "AuthError"
        /\ last.auth.raised.site = "KeyNotFound"
        /\ last.auth.raised.status_code = 400
        /\ last.response.status = 400

\* The key set lists, under the kid of the token, the key that signed it,
\* and the token is signed with the configured algorithm.
SignedByListedKey(token, net) ==
    /\ KeySetFetched(net)
    /\ TokenNamesKid(token)
    /\ \E k \in 1..Len(net.doc.keys) :
          /\ net.doc.keys[k].kid = TokenHeader(token).kid
          /\ net.doc.keys[k].n = TokenSigner(token)
    /\ TokenHeader(token).alg = "RS256"

\* The latest request was rejected with this AuthError raised by
\* verify_decode_jwt and answered with this status.
RejectedAs(code, description, status_code, status) ==
    /\ ~last.started
    /\ last.auth.raised.kind = "AuthError"
    /\ last.auth.raised.error = [code |-> code, description |-> description]
    /\ last.auth.raised.status_code = status_code
    /\ last.response.status = status

\* C12: for a token signed by the key the key set lists under its kid, a
\* request to a guarded route is rejected as TokenExpired (AuthError
\* token_expired, 401) and answered 401 when exp is in the past; when the
\* token is not expired and its aud is not the configured audience or its
\* iss is not 'https://<domain>/', it is rejected as InvalidClaims
\* (AuthError invalid_claims, 401) and answered 401.
C12_ExpiredOrWrongClaimsIsUnauthorized ==
    (BearerRequest /\ SignedByListedKey(LastToken, jwks)) =>
        LET claims == TokenClaims(LastToken) IN
        /\ claims.exp < now =>
              /\ RejectedAs("token_expired", "Token expired.", 401, 401)
              /\ last.auth.raised.site = "TokenExpired"
        /\ (claims.exp >= now /\ (claims.aud # "drinks"
                                  \/ claims.iss # "https://full.eu.auth0.com/")) =>
              /\ RejectedAs("invalid_claims",
                     "Incorrect claims. Please, check the audience and issuer.",
                     401, 401)
              /\ last.auth.raised.site = "InvalidClaims"

C12_Witness ==
    /\ last.req.route = "PATCH /drinks/<id>"
    /\ BearerRequest
    /\ SignedByListedKey(LastToken, jwks)
    /\ TokenClaims(LastToken).exp < now
    /\ TokenClaims(LastToken).aud # "drinks"
    /\ last.auth.raised.error.code = "token_expired"
    /\ last.response.status = 401

\* The key set lists a key under the kid of the token, and the token is not
\* signed by a key listed under that kid or not with the configured algorithm.
BadSignatureOrAlgorithm(token, net) ==
    /\ KeySetFetched(net)
    /\ TokenNamesKid(token)
    /\ \E k \in 1..Len(net.doc.keys) : net.doc.keys[k].kid = TokenHeader(token).kid
    /\ \/ TokenHeader(token).alg # "RS256"
       \/ \A k \in 1..Len(net.doc.keys) :
             net.doc.keys[k].kid = TokenHeader(token).kid
                => net.doc.keys[k].n # TokenSigner(token)

\* C13: with the key set fetched, a request to a guarded route whose token
\* cannot be parsed, or whose signature does not verify, or whose algorithm
\* is not the configured one, is rejected as InvalidHeader (AuthError
\* invalid_header, 400) and answered with status 400.
C13_OtherFailuresAreInvalidHeader400 ==
    ( /\ BearerRequest
      /\ jwks.up
      /\ (~Parseable(LastToken) \/ BadSignatureOrAlgorithm(LastToken, jwks)) ) =>
        /\ ~last.started
        /\ last.auth.raised.kind = "AuthError"
        /\ last.auth.raised.error.code = "invalid_header"
        /\ last.auth.raised.status_code = 400
        /\ last.response.status = 400

\* The fetch of the key set fails, or what it yields holds no key.
NoUsableKeySet(net) ==
    \/ ~net.up
    \/ "keys" \notin DOMAIN net.doc
    \/ net.doc.keys = <<>>

\* C14: while the fetch of the key set fails or yields no key, every request
\* to a guarded route is rejected: the view function is not called, no
\* payload is produced, the drinks table is left as it was and the answer
\* is an authorization error, whatever token and permissions the request
\* presents.
C14_FailsClosed ==
    [][ ( /\ last' # NoRequest
          /\ last'.permission # None
          /\ NoUsableKeySet(jwks) )
        => ( /\ ~last'.started
             /\ last'.payload = NoValue
             /\ last'.auth.out.kind = "abort"
             /\ drinks' = drinks
             /\ last'.response.status \in AuthStatuses ) ]_vars

C14_Witness ==
    /\ last.req.route = "POST /drinks"
    /\ last.req.headers = WithAuthorization(Str_Bearer \o <<SP>> \o GoodToken)
    /\ jwks = JwksDown
    /\ last.auth.fetches = 1
    /\ last.auth.raised = Raise("URLError")
    /\ ~last.started
    /\ last.response.status = 401

\* C15: when the fetch of the key set fails, a request to a guarded route
\* that presents a bearer token is rejected with an AuthError invalid_header
\* of status 400, and answered with status 400.
C15_FetchFailureIsInvalidHeader400 ==
    (BearerRequest /\ ~jwks.up) =>
        /\ ~last.started
        /\ last.auth.fetches = 1
        /\ last.auth.raised.kind = "AuthError"
        /\ last.auth.raised.error.code = "invalid_header"
        /\ last.auth.raised.status_code = 400
        /\ last.response.status = 400

\* C16: when verify_decode_jwt raises an AuthError in a request to a guarded
\* route, the answer carries the code and the description of that AuthError
\* and has its status code, as the AuthError handler renders it.
C16_AuthErrorReachesTheCaller ==
    (BearerRequest /\ last.auth.raised.kind = "AuthError") =>
        /\ ~last.started
        /\ last.response.status = last.auth.raised.status_code
        /\ last.response.body = last.auth.raised.error
        /\ last.response = handle_auth_error(last.auth.raised)

\* The token of the header, when it has one, is expired at both times or
\* at neither.
SameValidityWindow(headers, t1, t2) ==
    ( /\ HasAuthorization(headers)
      /\ BearerOneSpace(headers.Authorization)
      /\ Parseable(CandidateToken(headers.Authorization)) ) =>
        LET exp == TokenClaims(CandidateToken(headers.Authorization)).exp IN
        (exp < t1) <=> (exp < t2)

\* The latest request asks the authorization kept in memo again: the same
\* Authorization header and required permission, against the same key set,
\* inside the same validity window of the token.
AskedAgain ==
    /\ memo.kind = "kept"
    /\ GuardedRequest
    /\ last.req.headers = memo.headers
    /\ last.permission = memo.permission
    /\ jwks = memo.jwks
    /\ SameValidityWindow(memo.headers, memo.now, now)

\* C17: an authorization asked again with the same Authorization header and
\* the same required permission, against the same key set and inside the
\* same validity window of the token, has the outcome of the first one (the
\* same payload, or the same abort with the same exception raised), whatever
\* requests were handled, key sets published and time passed in between.
C17_SameRequestSameOutcome ==
    AskedAgain =>
        /\ last.auth.out = memo.auth.out
        /\ last.auth.raised = memo.auth.raised
        /\ last.auth = memo.auth
        /\ last.started <=> (memo.auth.out.kind = "return")
        /\ ~last.started => last.response = ErrorResponse(memo.auth.out.status)

C17_Witness ==
    /\ AskedAgain
    /\ last.req.route = "DELETE /drinks/<id>"
    /\ last.req.id = MaxDrinks
    /\ 1 \notin DOMAIN drinks
    /\ memo.now < now
    /\ memo.auth.out.kind = "return"
    /\ last.started

\* C18: the authorization of a request to a guarded route whose header is
\* 'bearer', one space and a token fetches the key set exactly once, and
\* parses, decodes and checks permissions at most once; the step that fails
\* is the last one: after a failed fetch the token is neither parsed nor
\* decoded, after a failed parse or key lookup it is not decoded, after any
\* failure of verify_decode_jwt permissions are not checked, and after any
\* failure the view function is not called. A request without such a header
\* fetches nothing.
C18_OneFetchAndFailuresAreTerminal ==
    GuardedRequest =>
        /\ BearerRequest => last.auth.fetches = 1
        /\ ~BearerRequest =>
              /\ last.auth.fetches = 0
              /\ last.auth.parses = 0
        /\ last.auth.parses <= 1 /\ last.auth.decodes <= last.auth.parses
        /\ last.auth.checks <= last.auth.decodes
        /\ (BearerRequest /\ ~jwks.up) => last.auth.parses = 0
        /\ (BearerRequest /\ jwks.up /\ ~SignedByListedKey(LastToken, jwks)
              /\ ~BadSignatureOrAlgorithm(LastToken, jwks)) => last.auth.decodes = 0
        /\ last.auth.raised # NoValue =>
              /\ last.auth.checks = 0
              /\ last.auth.out.kind = "abort"
        /\ last.auth.out.kind = "abort" => ~last.started

C18_Witness ==
    /\ BearerRequest
    /\ last.req.route = "PATCH /drinks/<id>"
    /\ last.auth.raised.kind = "AuthError"
    /\ last.auth.raised.site = "TokenExpired"
    /\ last.auth.fetches = 1
    /\ last.auth.decodes = 1
    /\ last.auth.checks = 0
    /\ ~last.started

(* ------------------------- the drinks routes --------------------------- *)

\* The entry of a listing for the stored row id: its id and title, and of
\* each ingredient the color and the parts only.
ShortEntry(id) ==
    [id |-> id, title |-> drinks[id].title,
     recipe |-> [k \in 1..Len(drinks[id].recipe.items) |->
                    [color |-> drinks[id].recipe.items[k].color,
                     parts |-> drinks[id].recipe.items[k].parts]]]

\* C19: in every state create, update and delete requests lead to, GET
\* /drinks, with or without an Authorization header, answers 200 with
\* success true and lists every stored drink exactly once in short form.
C19_GetDrinksListsEveryDrink ==
    (last.req.route = "GET /drinks") =>
        /\ last.response.status = 200
        /\ last.response.body.success
        /\ Len(last.response.body.drinks) = Cardinality(DOMAIN drinks)
        /\ \A id \in DOMAIN drinks :
              \E k \in 1..Len(last.response.body.drinks) :
                 last.response.body.drinks[k] = ShortEntry(id)

\* C20: a POST /drinks that passed authorization adds exactly one row, with
\* the title and the recipe of the body, leaves every other row as it was,
\* and answers 200 with success true and a drinks array that holds the new
\* drink alone, in long form.
C20_CreateAddsOneRowAndAnswersIt ==
    [][ ( /\ last' # NoRequest
          /\ last'.req.route = "POST /drinks"
          /\ last'.started )
        => LET id == NextId(drinks)
               body == last'.req.body IN
           /\ DOMAIN drinks' = DOMAIN drinks \cup {id}
           /\ \A i \in DOMAIN drinks : drinks'[i] = drinks[i]
           /\ drinks'[id].title = BodyTitle(body)
           /\ BodyRecipe(body).some => drinks'[id].recipe.items = body.recipe
           /\ last'.response.status = 200
           /\ last'.response.body.success
           /\ last'.response.body.drinks =
                 <<[id |-> id, title |-> body.title, recipe |-> body.recipe]>> ]_vars

\* C21: a PATCH /drinks/<id> that passed authorization answers 404 and
\* leaves the table as it was when no row has that id; when the row exists
\* it changes that row only, the row keeps its id, and the answer is 200
\* with success true and a drinks array that holds the updated drink alone,
\* in long form.
C21_UpdateChangesOneRowAndAnswersIt ==
    [][ ( /\ last' # NoRequest
          /\ last'.req.route = "PATCH /drinks/<id>"
          /\ last'.started )
        => LET id == last'.req.id
               body == last'.req.body IN
           IF id \notin DOMAIN drinks
           THEN /\ last'.response.status = 404
                /\ drinks' = drinks
           ELSE /\ DOMAIN drinks' = DOMAIN drinks
                /\ \A i \in DOMAIN drinks \ {id} : drinks'[i] = drinks[i]
                /\ drinks'[id].title = BodyTitle(body)
                /\ last'.response.status = 200
                /\ last'.response.body.success
                /\ last'.response.body.drinks =
                      <<[id |-> id, title |-> body.title, recipe |-> body.recipe]>>
      ]_vars

\* C22: a DELETE /drinks/<id> that passed authorization answers 404 and
\* leaves the table as it was when no row has that id; when the row exists
\* it removes that row and no other, answers 200 with success true and
\* delete equal to id, and in the state it leaves no listing holds a drink
\* with that id and a second DELETE of the id is answered 404. A removed id
\* comes back only through a POST /drinks.
C22_DeleteRemovesOneRow ==
    [][ /\ ( /\ last' # NoRequest
             /\ last'.req.route = "DELETE /drinks/<id>"
             /\ last'.started )
           => LET id == last'.req.id IN
              IF id \notin DOMAIN drinks
              THEN /\ last'.response = ErrorResponse(404)
                   /\ last'.response.body.message = "resource not found"
                   /\ drinks' = drinks
              ELSE /\ DOMAIN drinks' = DOMAIN drinks \ {id}
                   /\ \A i \in DOMAIN drinks' : drinks'[i] = drinks[i]
                   /\ last'.response = Response(200, [success |-> TRUE, delete |-> id])
                   /\ \A detail \in BOOLEAN :
                         Listing(drinks', detail).kind = "return" =>
                            \A k \in 1..Len(Listing(drinks', detail).value) :
                               Listing(drinks', detail).value[k].id # id
                   /\ delete_drink(last'.payload, id, drinks').response.status = 404
        /\ \A i \in DOMAIN drinks' \ DOMAIN drinks :
              last'.req.route = "POST /drinks"
      ]_vars

C22_Witness ==
    /\ last.req.route = "DELETE /drinks/<id>"
    /\ last.started
    /\ last.req.id = 1
    /\ last.response.status = 200
    /\ last.response.body.delete = 1
    /\ DOMAIN drinks = {2, 3, MaxDrinks}

(* --------------------------- the trivia routes ------------------------- *)

\* C23: while a question is stored, GET /questions with a page beyond the
\* last page that holds a question answers 200 with success true, an empty
\* page of questions and total_questions equal to the number of stored
\* questions, and not 404.
C23_PageBeyondTheLastIs200 ==
    ( /\ reply.req.route = "GET /questions"
      /\ DOMAIN questions # {}
      /\ (PageOf(reply.req.args) - 1) * QUESTIONS_PER_PAGE
            >= Cardinality(DOMAIN questions) ) =>
        /\ reply.response.status # 404
        /\ reply.response.status = 200
        /\ reply.response.body.success
        /\ reply.response.body.questions = <<>>
        /\ reply.response.body.total_questions = Cardinality(DOMAIN questions)

\* C24: DELETE /questions/<id> of a stored question answers 200 with success
\* true and deleted equal to id; the question is gone, every other question
\* is as it was, and total_questions is the count before minus one. DELETE
\* of an id no question has answers 404 'resource not found' and leaves the
\* table as it was.
C24_DeleteQuestionRemovesOne ==
    [][ ( /\ reply' # NoReply
          /\ reply'.req.route = "DELETE /questions/<id>" )
        => LET id == reply'.req.id IN
           IF id \in DOMAIN questions
           THEN /\ reply'.response.status = 200
                /\ reply'.response.body.success
                /\ reply'.response.body.deleted = id
                /\ DOMAIN questions' = DOMAIN questions \ {id}
                /\ \A i \in DOMAIN questions' : questions'[i] = questions[i]
                /\ reply'.response.body.total_questions
                      = Cardinality(DOMAIN questions) - 1
           ELSE /\ reply'.response.status = 404
                /\ ~reply'.response.body.success
                /\ reply'.response.body.message = "resource not found"
                /\ questions' = questions
      ]_vars

C24_Witness ==
    /\ reply.req.route = "DELETE /questions/<id>"
    /\ reply.req.id = QUESTIONS_PER_PAGE + 1
    /\ reply.response.status = 200
    /\ reply.response.body.deleted = QUESTIONS_PER_PAGE + 1
    /\ reply.response.body.total_questions = QUESTIONS_PER_PAGE
    /\ DOMAIN questions = 1..QUESTIONS_PER_PAGE

\* The text holds the term, letters compared in either case.
Contains(text, term) ==
    \E k \in 0..(Len(text) - Len(term)) :
       Lower(SubSeq(text, k + 1, k + Len(term))) = Lower(term)

\* C25: POST /searches answers 422 when the search term is empty or absent;
\* for every other term it answers 200 with exactly the questions whose
\* text holds the term in either case, each once, total_questions equal to
\* their number, and current_category equal to the category of the first
\* of them, or null when there is none. The question table is left as it
\* was.
C25_SearchFindsTheQuestionsHoldingTheTerm ==
    [][ ( /\ reply' # NoReply
          /\ reply'.req.route = "POST /searches" )
        => LET body == reply'.req.body
               term == IF "searchTerm" \in DOMAIN body THEN body.searchTerm ELSE <<>>
               answer == reply'.response.body IN
           /\ questions' = questions
           /\ IF term = <<>>
              THEN reply'.response.status = 422
              ELSE /\ reply'.response.status = 200
                   /\ answer.success
                   /\ { answer.questions[k].id : k \in 1..Len(answer.questions) }
                         = { i \in DOMAIN questions :
                                Contains(questions[i].question, term) }
                   /\ \A k \in 1..Len(answer.questions) :
                         answer.questions[k]
                            = format(QuestionObject(questions, answer.questions[k].id))
                   /\ \A j, k \in 1..Len(answer.questions) :
                         answer.questions[j].id = answer.questions[k].id => j = k
                   /\ answer.total_questions = Len(answer.questions)
                   /\ IF answer.questions = <<>>
                      THEN answer.current_category = NoValue
                      ELSE answer.current_category = answer.questions[1].category
      ]_vars

\* The questions a quiz round may answer: those of the category asked for,
\* any category when its id is 0, that were not played before.
Eligible(body, table) ==
    { i \in DOMAIN table :
         /\ body.quiz_category.id \in {0, table[i].category}
         /\ i \notin Range(body.previous_questions) }

\* C26: POST /quizzes answers 200 with success true for every list of
\* previous question ids and every quiz category; the question it carries
\* is one of the category that was not played before, and is null when no
\* such question exists, the category being empty included, whether or
\* not previous questions were sent.
C26_QuizAnswersAnUnplayedQuestionOrNull ==
    ( reply.req.route = "POST /quizzes" )
    => /\ reply.response.status = 200
       /\ reply.response.body.success
       /\ IF Eligible(reply.req.body, questions) = {}
          THEN reply.response.body.question = NoValue
          ELSE /\ reply.response.body.question # NoValue
               /\ reply.response.body.question.id \in Eligible(reply.req.body, questions)
               /\ reply.response.body.question
                     = format(QuestionObject(questions, reply.response.body.question.id))

\* The 1-based positions of a selection of n items that page p covers.
PagePositions(p, n) ==
    { k \in 1..n : (p - 1) * QUESTIONS_PER_PAGE < k /\ k <= p * QUESTIONS_PER_PAGE }

\* C27: for every selection and every integer page p, 1 when none is
\* given, paginate_questions returns, in the order of the selection, the
\* formatted items at the 0-based positions (p-1)*10 .. p*10-1 that exist:
\* at most ten items, none of another page, and the empty list when p is
\* outside the existing pages, p <= 0 included.
C27_PageIsItsTenPositions ==
    ( reply.req.route = "GET /questions" )
    => LET selection == AllQuestions(questions)
           p == PageOf(reply.req.args)
           page == paginate_questions(reply.req.args, selection) IN
       /\ Len(page) = Cardinality(PagePositions(p, Len(selection)))
       /\ Len(page) <= QUESTIONS_PER_PAGE
       /\ \A k \in 1..Len(page) :
             page[k] = format(selection[(p - 1) * QUESTIONS_PER_PAGE + k])
       /\ reply.response.status = 200 => reply.response.body.questions = page

(* ----------------------- atomicity of the writes ----------------------- *)

\* C28: the writes of the drinks API are atomic with respect to the
\* response: whenever a POST /drinks or a PATCH /drinks/<id> that passed
\* authorization is answered 422 or 404, whatever its body (one without
\* title or recipe, or with a recipe that is no JSON list once its quotes
\* are replaced, included), the drinks table is exactly as it was before
\* the request.
C28_RefusedWriteLeavesTheTable ==
    [][ ( /\ last' # NoRequest
          /\ last'.req.route \in {"POST /drinks", "PATCH /drinks/<id>"}
          /\ last'.started
          /\ last'.response.status \in {422, 404} )
        => drinks' = drinks ]_vars

(* ------------------------- the quiz of a client ------------------------ *)

\* The questions of the category a quiz is played in, every question when
\* its id is 0.
InCategory(category, table) ==
    { i \in DOMAIN table : category \in {0, table[i].category} }

\* C29: a quiz that starts with no previous questions and appends the id of
\* each question it is given before the next POST /quizzes, on a table that
\* does not change, is never given a question twice, is given questions of
\* its category only, and after exactly as many rounds as the category
\* holds questions, none for an empty category, is answered 200 with
\* question null.
C29_QuizEndsWithoutRepeats ==
    ( quiz.stage # "none" )
    => LET count == Cardinality(InCategory(quiz.category, questions)) IN
       /\ \A j, k \in 1..Len(quiz.previous) :
             quiz.previous[j] = quiz.previous[k] => j = k
       /\ Range(quiz.previous) \subseteq InCategory(quiz.category, questions)
       /\ quiz.stage = "over" => Len(quiz.previous) = count
       /\ quiz.stage # "failed"
       /\ ( reply.req.route = "POST /quizzes" )
          => /\ reply.response.status = 200
             /\ ( reply.response.body.question = NoValue )
                   <=> ( Len(reply.req.body.previous_questions) = count )

(* --------------------------- the venues page --------------------------- *)

\* C30: /venues groups the stored venues by location. For every set of
\* stored venues, the empty one included, every entry of areas is a
\* location record, never null, with a non-empty list of venues; areas
\* holds one entry for each distinct pair of city and state among the
\* venues and no other; every venue is in exactly one entry, the one of its
\* city and state; and the num_upcoming_shows of a venue is the number of
\* its shows whose start_time is not before now.
C30_VenuesAreGroupedByLocation ==
    ( areas # NoPage )
    => /\ \A a \in 1..Len(areas) : areas[a] # NoValue
       /\ \A a \in 1..Len(areas) : areas[a].venues # <<>>
       /\ \A a, b \in 1..Len(areas) :
             ( areas[a].city = areas[b].city /\ areas[a].state = areas[b].state )
                => a = b
       /\ { <<areas[a].city, areas[a].state>> : a \in 1..Len(areas) }
             = { <<venues[i].city, venues[i].state>> : i \in DOMAIN venues }
       /\ \A i \in DOMAIN venues :
             Cardinality({ <<a, k>> \in (1..Len(areas)) \X (1..Cardinality(DOMAIN venues)) :
                              /\ k <= Len(areas[a].venues)
                              /\ areas[a].venues[k].id = i }) = 1
       /\ \A a \in 1..Len(areas) : \A k \in 1..Len(areas[a].venues) :
             LET entry == areas[a].venues[k] IN
             /\ entry.id \in DOMAIN venues
             /\ venues[entry.id].city = areas[a].city
             /\ venues[entry.id].state = areas[a].state
             /\ entry.name = venues[entry.id].name
             /\ entry.num_upcoming_shows
                   = Cardinality({ s \in DOMAIN shows :
                                      /\ shows[s].venue_id = entry.id
                                      /\ shows[s].start_time >= today })

====
